---- MODULE Spec2Model ----
(***************************************************************************)
(* Model of src/lib/Video.ts: the life cycle of one video of a channel.    *)
(* The state is what the class reads and writes: the per-part .partial and *)
(* .mp4 files, the persisted expectedSize of the channel database, the     *)
(* streaming transfers download() opens, the transcoder processes          *)
(* muxffmpegMetadata() launches and the completion calls on the channel.   *)
(* One logical worker drives the video: it calls download(),               *)
(* muxffmpegMetadata() or markCompleted() and starts the next operation    *)
(* only when the previous one has returned and the transfers and           *)
(* transcoder processes it started have ended.  Every await of the code at *)
(* which a transfer or transcoder event can interleave is a separate step. *)
(***************************************************************************)
EXTENDS Integers, Sequences, FiniteSets, TLC

\* ---------------------------------------------------------------- bounds
MaxParts == 2       \* a video has 1..MaxParts video attachments
MaxBytes == 2       \* files and transfers hold 0..MaxBytes bytes
MaxMarks == 1       \* channel.markVideoCompleted returns at most MaxMarks times
MaxLevels == 3      \* a delivery ticket lists 1..MaxLevels quality levels
MaxDigit == 1       \* quality labels are written with the digits 0..MaxDigit
MaxAttachments == 11 \* the path formatter is run for 1..MaxAttachments attachments
MaxAtoms == 2       \* a format string and a channel title have 0..MaxAtoms atoms
MaxTitle == 3       \* a video title has 0..MaxTitle atoms

\* ------------------------------------------------------ program constants
Absent == -1        \* Video.getFileBytes: size of a file that does not exist

VARIABLES
    nParts,          \* this.videoAttachments.length
    considerAll,     \* settings.considerAllNonPartialDownloaded
    artworkOn,       \* settings.extras.downloadArtwork && this.thumbnail !== null
    saveNfo,         \* settings.extras.saveNfo
    expectedSize,    \* channel.lookupVideoDB(guid).expectedSize: {} is undefined, {n} is n
    partial,         \* size of each part's .partial file, Absent when missing
    mp4,             \* size of each part's .mp4 file, Absent when missing
    folder,          \* the folder of the video exists
    nfo,             \* the .nfo file has been written
    artwork,         \* the artwork fetch has been started
    pc,              \* position of the worker inside download() / muxffmpegMetadata()
    idx,             \* loop index i of download() and of the unlink loop
    op,              \* the operation the worker called last
    result,          \* how that operation ended ("pending" while it runs)
    transfer,        \* per part: state of the streaming transfer
    listener,        \* per part: a once('downloadProgress') listener is registered
    total,           \* per part: progress.total reported by the transfer
    received,        \* per part: bytes the transfer has piped into the write stream
    ffmpeg,          \* per part: state of the transcoder process
    markCalls,       \* number of channel.markVideoCompleted calls that returned
    quality,         \* argument quality of download()
    cdnEdges,        \* cdnInfo.edges of the last delivery ticket
    qualityLevels,   \* names of cdnInfo.resource.data.qualityLevels of that ticket
    downloadQuality, \* quality substituted into the last download URL
    allowRangeQuery, \* argument allowRangeQuery of download()
    writeStreamOptions, \* local of download(): {} is undefined, {n} is { start: n, flags: 'r+' }
    requestOptions,  \* local of download(): {} is undefined, {n} is a range header bytes=n-
    unsetAtCall,     \* this.expectedSize was undefined when the running download() was called
    paths,           \* per caller: the .partial paths its loop has computed so far
    template,        \* the string given to formatString
    channelTitle,    \* this.channel.title
    title,           \* this.title
    formatted        \* what formatString returned: {} before it has run

vars == <<nParts, considerAll, artworkOn, saveNfo, expectedSize, partial, mp4,
          folder, nfo, artwork, pc, idx, op, result, transfer,
          listener, total, received, ffmpeg, markCalls, quality, cdnEdges,
          qualityLevels, downloadQuality, allowRangeQuery,
          writeStreamOptions, requestOptions, unsetAtCall, paths, template,
          channelTitle, title, formatted>>

settingsVars == <<nParts, considerAll, artworkOn, saveNfo>>
fileVars == <<partial, mp4, folder, nfo, artwork>>
transferVars == <<transfer, listener, total, received>>
qualityVars == <<quality, cdnEdges, qualityLevels, downloadQuality>>
callVars == <<allowRangeQuery, writeStreamOptions, requestOptions, unsetAtCall>>
formatVars == <<template, channelTitle, title, formatted>>
textVars == <<paths, formatVars>>
stateVars == <<expectedSize, fileVars, pc, idx, op, result, transferVars, ffmpeg,
               markCalls, qualityVars, callVars>>

\* the methods that compute the path of a part
Callers == {"fileBytes", "download", "muxffmpegMetadata"}

Parts == 0 .. (nParts - 1)
Sizes == 0 .. MaxBytes

\* ---------------------------------------------------------- state tracker
\* Video.getFileBytes: fs.stat(path).size, -1 when stat fails
getFileBytes(files, i) == files[i]

RECURSIVE SumBytes(_, _)
SumBytes(files, n) ==
    IF n = 0 THEN 0 ELSE SumBytes(files, n - 1) + getFileBytes(files, n - 1)

\* Video.fileBytes: bytes += getFileBytes(part i) over all attachments
fileBytes(files) == SumBytes(files, nParts)

\* number === this.expectedSize
StrictEq(n, e) == e = {n}

\* Video.isMuxed
isMuxed ==
    IF considerAll THEN fileBytes(mp4) # Absent
    ELSE StrictEq(fileBytes(mp4), expectedSize)

\* Video.isDownloaded
isDownloaded == isMuxed \/ StrictEq(fileBytes(partial), expectedSize)

\* ------------------------------------------------------- delivery resolver
Digits == 0 .. MaxDigit
\* numeric labels: strings of one or two decimal digits
Labels == UNION {[1 .. n -> Digits] : n \in 1 .. 2}
\* a requested label that is no number, such as "4k": 10 stands for a letter
NonNumericLabel == <<10>>

RECURSIVE ToNumber(_)
\* unary plus on a string of decimal digits
ToNumber(s) ==
    IF Len(s) = 0 THEN 0
    ELSE 10 * ToNumber(SubSeq(s, 1, Len(s) - 1)) + s[Len(s)]

\* the comparator mutated: ascending
CompareAscending(a, b) == ToNumber(a) - ToNumber(b)

\* the comparator of the sort: (a, b) => +b - +a
Compare(a, b) == ToNumber(b) - ToNumber(a)

RECURSIVE Insert(_, _)
\* stable insertion of x into a list sorted by Compare
Insert(x, s) ==
    IF Len(s) = 0 THEN <<x>>
    ELSE IF Compare(s[Len(s)], x) <= 0 THEN Append(s, x)
    ELSE Append(Insert(x, SubSeq(s, 1, Len(s) - 1)), s[Len(s)])

RECURSIVE Sort(_)
\* Array.prototype.sort with the comparator Compare (stable)
Sort(s) ==
    IF Len(s) = 0 THEN <<>>
    ELSE Insert(s[Len(s)], Sort(SubSeq(s, 1, Len(s) - 1)))

Includes(s, x) == \E k \in 1 .. Len(s) : s[k] = x

\* availableQualities.includes(quality) ? quality : availableQualities[0]
DownloadQuality(levels, q) ==
    LET availableQualities == Sort(levels)
    IN  IF Includes(availableQualities, q) THEN q ELSE availableQualities[1]

\* ------------------------------------------------------------------- Init
Init ==
    /\ nParts \in 1 .. MaxParts
    /\ considerAll \in BOOLEAN
    /\ artworkOn \in BOOLEAN
    /\ saveNfo \in BOOLEAN
    /\ expectedSize = {}
    /\ partial = [i \in Parts |-> Absent]
    /\ mp4 = [i \in Parts |-> Absent]
    /\ folder = FALSE
    /\ nfo = FALSE
    /\ artwork = FALSE
    /\ pc = "idle"
    /\ idx = 0
    /\ op = "none"
    /\ result = "none"
    /\ transfer = [i \in Parts |-> "none"]
    /\ listener = [i \in Parts |-> FALSE]
    /\ total = [i \in Parts |-> 0]
    /\ received = [i \in Parts |-> 0]
    /\ ffmpeg = [i \in Parts |-> "none"]
    /\ markCalls = 0
    /\ quality = <<>>
    /\ cdnEdges = "none"
    /\ qualityLevels = <<>>
    /\ downloadQuality = <<>>
    /\ allowRangeQuery = TRUE
    /\ writeStreamOptions = {}
    /\ requestOptions = {}
    /\ unsetAtCall = FALSE
    /\ paths = [c \in Callers |-> <<>>]
    /\ template = <<>>
    /\ channelTitle = <<>>
    /\ title = <<>>
    /\ formatted = {}

\* the worker starts an operation only when nothing it started is running
Quiescent ==
    \A i \in Parts : transfer[i] \notin {"open", "flowing"} /\ ffmpeg[i] # "running"

\* -------------------------------------------------- download orchestrator
\* the delivery tickets fApi.cdn.delivery can answer with
TicketEdges == {"undefined", "empty", "some"}
TicketLevels == {<<<<0, 1>>, <<1, 1>>, <<1, 0>>>>}
RequestedQualities == {NonNumericLabel}

\* the transfer handles and the delivery ticket of the previous download()
\* are out of scope once the worker goes on to its next operation
DropDownload ==
    /\ transfer' = [i \in Parts |-> "none"]
    /\ listener' = [i \in Parts |-> FALSE]
    /\ total' = [i \in Parts |-> 0]
    /\ received' = [i \in Parts |-> 0]
    /\ cdnEdges' = "none"
    /\ qualityLevels' = <<>>
    /\ downloadQuality' = <<>>

\* the arguments and locals of the previous download() likewise
DropArguments ==
    /\ allowRangeQuery' = TRUE
    /\ writeStreamOptions' = {}
    /\ requestOptions' = {}
    /\ unsetAtCall' = FALSE

\* the resumption code of download() that is commented out, enabled: a
\* one-part video with a known size and an existing .partial file resumes
\* at the bytes it has
ResumptionEnabled(allow) ==
    IF nParts = 1 /\ allow /\ expectedSize # {} /\ fileBytes(partial) # Absent
    THEN {fileBytes(partial)}
    ELSE {}

\* let writeStreamOptions, requestOptions, downloadedBytes: nothing assigns
\* them, whatever allowRangeQuery is
Resumption(allow) == {}

\* createWriteStream(path, options): without options the file is truncated
\* and written from offset 0; with flags 'r+' it is kept and written from start
WriteStart(options, size) == IF options = {} THEN 0 ELSE size

\* the precondition of download() left out
AlreadyDownloadedCheckMissing == FALSE

\* if (await this.isDownloaded()) throw ...
AlreadyDownloadedCheck == isDownloaded

\* download(quality, allowRangeQuery): the precondition, mkdir, artwork,
\* .nfo and the stream options, up to the first await of fApi.cdn.delivery
DownloadCall(q, allow) ==
    /\ pc = "idle"
    /\ Quiescent
    /\ op' = "download"
    /\ quality' = q
    /\ allowRangeQuery' = allow
    /\ IF AlreadyDownloadedCheck
       THEN /\ result' = "AlreadyDownloaded"
            /\ unsetAtCall' = FALSE
            /\ UNCHANGED <<fileVars, pc, idx, transferVars, cdnEdges,
                           qualityLevels, downloadQuality,
                           writeStreamOptions, requestOptions>>
       ELSE /\ unsetAtCall' = (expectedSize = {})
            /\ writeStreamOptions' = Resumption(allow)
            /\ requestOptions' = Resumption(allow)
            /\ folder' = TRUE
            /\ artwork' = (artwork \/ artworkOn)
            /\ nfo' = (nfo \/ saveNfo)
            /\ pc' = "dl"
            /\ idx' = 0
            /\ DropDownload
            /\ result' = "pending"
            /\ UNCHANGED <<partial, mp4>>
    /\ UNCHANGED <<settingsVars, textVars, expectedSize, ffmpeg, markCalls>>

\* one iteration of the loop over this.videoAttachments, from the answer of
\* fApi.cdn.delivery to the push of the download request
DownloadPart(edges, levels) ==
    /\ pc = "dl"
    /\ cdnEdges' = edges
    /\ qualityLevels' = levels
    /\ IF edges = "undefined"
       THEN \* throw new Error('No edges found for video')
            /\ result' = "NoEdgesAvailable"
            /\ pc' = "idle"
            /\ idx' = 0
            /\ UNCHANGED <<partial, transferVars, downloadQuality>>
       ELSE IF edges = "empty"
       THEN \* cdnInfo.edges[0] is undefined: reading .hostname throws
            /\ result' = "TypeError"
            /\ pc' = "idle"
            /\ idx' = 0
            /\ UNCHANGED <<partial, transferVars, downloadQuality>>
       ELSE /\ downloadQuality' = DownloadQuality(levels, quality)
            /\ transfer' = [transfer EXCEPT ![idx] = "open"]
            /\ total' = [total EXCEPT ![idx] = 0]
            /\ received' = [received EXCEPT ![idx] = 0]
            /\ partial' = [partial EXCEPT ![idx] =
                              WriteStart(writeStreamOptions, partial[idx])]
            /\ listener' = [listener EXCEPT ![idx] = (expectedSize = {})]
            /\ IF idx = nParts - 1
               THEN /\ pc' = "idle"
                    /\ result' = "ok"
                    /\ idx' = 0
               ELSE /\ idx' = idx + 1
                    /\ UNCHANGED <<pc, result>>
    /\ UNCHANGED <<settingsVars, callVars, textVars, expectedSize, mp4, folder, nfo, artwork, op,
                   ffmpeg, markCalls, quality>>

\* the first downloadProgress event of a transfer; a registered listener
\* runs (progress) => (this.expectedSize = progress.total)
TransferProgress(i, t) ==
    /\ transfer[i] = "open"
    /\ transfer' = [transfer EXCEPT ![i] = "flowing"]
    /\ total' = [total EXCEPT ![i] = t]
    /\ listener' = [listener EXCEPT ![i] = FALSE]
    /\ expectedSize' = IF listener[i] THEN {t} ELSE expectedSize
    /\ UNCHANGED <<settingsVars, callVars, textVars, fileVars, received, pc, idx, op, result,
                   ffmpeg, markCalls, qualityVars>>

\* the transfer pipes one more byte into the .partial file
TransferWrite(i) ==
    /\ transfer[i] = "flowing"
    /\ received[i] < total[i]
    /\ received' = [received EXCEPT ![i] = received[i] + 1]
    /\ partial' = [partial EXCEPT ![i] = partial[i] + 1]
    /\ UNCHANGED <<settingsVars, callVars, textVars, expectedSize, mp4, folder, nfo, artwork, pc,
                   idx, op, result, transfer, listener, total, ffmpeg,
                   markCalls, qualityVars>>

\* the transfer ends after its last byte
TransferEnd(i) ==
    /\ transfer[i] = "flowing"
    /\ received[i] = total[i]
    /\ transfer' = [transfer EXCEPT ![i] = "done"]
    /\ UNCHANGED <<settingsVars, callVars, textVars, expectedSize, fileVars, pc, idx, op, result,
                   listener, total, received, ffmpeg, markCalls, qualityVars>>

\* the transfer breaks off
TransferFail(i) ==
    /\ transfer[i] \in {"open", "flowing"}
    /\ transfer' = [transfer EXCEPT ![i] = "failed"]
    /\ listener' = [listener EXCEPT ![i] = FALSE]
    /\ total' = [total EXCEPT ![i] = 0]
    /\ received' = [received EXCEPT ![i] = 0]
    /\ UNCHANGED <<settingsVars, callVars, textVars, expectedSize, fileVars, pc, idx, op, result,
                   ffmpeg, markCalls, qualityVars>>

\* ------------------------------------------------------------- finalizer
\* a Promise object is truthy whatever it resolves to
Truthy(promise) == TRUE

\* if (!this.isDownloaded()): the promise is not awaited
NotDownloadedCheck == ~ Truthy(isDownloaded)

\* muxffmpegMetadata(): the precondition and the launch of one execFile per
\* attachment
MuxCall ==
    /\ pc = "idle"
    /\ Quiescent
    /\ op' = "mux"
    /\ quality' = <<>>
    /\ DropDownload
    /\ DropArguments
    /\ IF NotDownloadedCheck
       THEN /\ result' = "NotDownloaded"
            /\ UNCHANGED <<pc, ffmpeg>>
       ELSE /\ result' = "pending"
            /\ pc' = "transcode"
            /\ ffmpeg' = [i \in Parts |-> "running"]
    /\ UNCHANGED <<settingsVars, textVars, expectedSize, fileVars, idx, markCalls>>

\* the execFile callback with the error dropped
ExitStatusErrorIgnored(ok) == "ok"

\* the execFile callback: reject(error) if error !== null, else resolve
ExitStatus(ok) == IF ok THEN "ok" ELSE "failed"

\* the transcoder of part i exits: with a missing input it fails and leaves
\* the output alone; otherwise it exits 0 with the .mp4 written, or
\* non-zero with the .mp4 as it was or partly written
FfmpegExit(i, ok, size) ==
    /\ ffmpeg[i] = "running"
    /\ IF partial[i] = Absent
       THEN /\ ~ ok
            /\ size = mp4[i]
       ELSE \/ ok /\ size \in 1 .. MaxBytes
            \/ ~ ok /\ size \in {mp4[i]} \cup Sizes
    /\ ffmpeg' = [ffmpeg EXCEPT ![i] = IF pc # "transcode" THEN "none"
                                       ELSE ExitStatus(ok)]
    /\ mp4' = [mp4 EXCEPT ![i] = size]
    /\ UNCHANGED <<settingsVars, callVars, textVars, expectedSize, partial, folder, nfo, artwork,
                   pc, idx, op, result, transferVars, markCalls,
                   qualityVars>>

\* the barrier mutated: it waits for every promise to settle, whatever its outcome
AllSettled == \A i \in Parts : ffmpeg[i] \in {"ok", "failed"}

\* Promise.all resolves when every promise has resolved
AllFulfilled == \A i \in Parts : ffmpeg[i] = "ok"

\* Promise.all rejects as soon as one execFile callback got an error
MuxReject ==
    /\ pc = "transcode"
    /\ \E i \in Parts : ffmpeg[i] = "failed"
    /\ pc' = "idle"
    /\ result' = "TranscodeFailed"
    /\ ffmpeg' = [i \in Parts |-> IF ffmpeg[i] = "running" THEN "running" ELSE "none"]
    /\ UNCHANGED <<settingsVars, callVars, textVars, expectedSize, fileVars, idx, op,
                   transferVars, markCalls, qualityVars>>

\* Promise.all resolved: this.expectedSize = await this.fileBytes('mp4')
MuxSize ==
    /\ pc = "transcode"
    /\ AllFulfilled
    /\ expectedSize' = {fileBytes(mp4)}
    /\ pc' = "mark"
    /\ ffmpeg' = [i \in Parts |-> "none"]
    /\ UNCHANGED <<settingsVars, callVars, textVars, fileVars, idx, op, result,
                   transferVars, markCalls, qualityVars>>

\* markCompleted() with the validation left out
MarkOutcomesUnchecked == {"ok", "ChannelError"}

\* markCompleted(): throws unless isMuxed(), else calls
\* channel.markVideoCompleted, which returns or throws
MarkOutcomes ==
    IF ~ isMuxed THEN {"MuxValidationFailed"} ELSE {"ok", "ChannelError"}

\* this.markCompleted() not awaited: the loop runs whatever the outcome
AfterMarkNotAwaited(outcome) == "unlink"

\* await this.markCompleted(): a rejection leaves muxffmpegMetadata()
AfterMark(outcome) == IF outcome = "ok" THEN "unlink" ELSE "idle"

\* await this.markCompleted() inside muxffmpegMetadata()
MuxMark(outcome) ==
    /\ pc = "mark"
    /\ outcome \in MarkOutcomes
    /\ outcome = "ok" => markCalls < MaxMarks
    /\ markCalls' = IF outcome = "ok" THEN markCalls + 1 ELSE markCalls
    /\ pc' = AfterMark(outcome)
    /\ result' = IF pc' = "idle" THEN outcome ELSE result
    /\ idx' = 0
    /\ UNCHANGED <<settingsVars, callVars, textVars, expectedSize, fileVars, op,
                   transferVars, ffmpeg, qualityVars>>

\* one iteration of the final loop: fs.unlink of the .partial file and
\* fs.utimes of the .mp4 file
MuxUnlink ==
    /\ pc = "unlink"
    /\ IF partial[idx] = Absent \/ mp4[idx] = Absent
       THEN /\ result' = "ENOENT"
            /\ pc' = "idle"
            /\ UNCHANGED <<partial, idx>>
       ELSE /\ partial' = [partial EXCEPT ![idx] = Absent]
            /\ IF idx = nParts - 1
               THEN /\ pc' = "idle"
                    /\ result' = "ok"
                    /\ idx' = 0
               ELSE /\ idx' = idx + 1
                    /\ UNCHANGED <<pc, result>>
    /\ UNCHANGED <<settingsVars, callVars, textVars, expectedSize, mp4, folder, nfo, artwork, op,
                   transferVars, ffmpeg, markCalls, qualityVars>>

\* markCompleted() called by the worker itself
MarkCompletedCall(outcome) ==
    /\ pc = "idle"
    /\ Quiescent
    /\ outcome \in MarkOutcomes
    /\ outcome = "ok" => markCalls < MaxMarks
    /\ op' = "markCompleted"
    /\ result' = outcome
    /\ markCalls' = IF outcome = "ok" THEN markCalls + 1 ELSE markCalls
    /\ quality' = <<>>
    /\ DropDownload
    /\ DropArguments
    /\ UNCHANGED <<settingsVars, textVars, expectedSize, fileVars, pc, idx, ffmpeg>>

\* ------------------------------------------------------------------- Next
Next ==
    \/ \E q \in RequestedQualities, a \in BOOLEAN : DownloadCall(q, a)
    \/ \E e \in TicketEdges, l \in TicketLevels : DownloadPart(e, l)
    \/ \E i \in Parts, t \in 1 .. MaxBytes : TransferProgress(i, t)
    \/ \E i \in Parts : TransferWrite(i)
    \/ \E i \in Parts : TransferEnd(i)
    \/ \E i \in Parts : TransferFail(i)
    \/ MuxCall
    \/ \E i \in Parts, ok \in BOOLEAN, s \in Sizes \cup {Absent} : FfmpegExit(i, ok, s)
    \/ MuxReject
    \/ MuxSize
    \/ \E o \in {"ok", "ChannelError", "MuxValidationFailed"} : MuxMark(o)
    \/ MuxUnlink
    \/ \E o \in {"ok", "ChannelError", "MuxValidationFailed"} : MarkCompletedCall(o)

Spec == Init /\ [][Next]_vars

\* ------------------------------- quality selection over all small tickets
LevelLists == UNION {[1 .. n -> Labels] : n \in 1 .. MaxLevels}

\* download(quality) of a fresh one-part video, waiting for its ticket
InitQuality ==
    /\ nParts = 1
    /\ considerAll = FALSE
    /\ artworkOn = FALSE
    /\ saveNfo = FALSE
    /\ expectedSize = {}
    /\ partial = [i \in Parts |-> Absent]
    /\ mp4 = [i \in Parts |-> Absent]
    /\ folder = TRUE
    /\ nfo = FALSE
    /\ artwork = FALSE
    /\ pc = "dl"
    /\ idx = 0
    /\ op = "download"
    /\ result = "pending"
    /\ transfer = [i \in Parts |-> "none"]
    /\ listener = [i \in Parts |-> FALSE]
    /\ total = [i \in Parts |-> 0]
    /\ received = [i \in Parts |-> 0]
    /\ ffmpeg = [i \in Parts |-> "none"]
    /\ markCalls = 0
    /\ quality \in Labels \cup {NonNumericLabel}
    /\ cdnEdges = "none"
    /\ qualityLevels = <<>>
    /\ downloadQuality = <<>>
    /\ allowRangeQuery = TRUE
    /\ writeStreamOptions = {}
    /\ requestOptions = {}
    /\ unsetAtCall = TRUE
    /\ paths = [c \in Callers |-> <<>>]
    /\ template = <<>>
    /\ channelTitle = <<>>
    /\ title = <<>>
    /\ formatted = {}

NextQuality == pc = "dl" /\ \E l \in LevelLists : DownloadPart("some", l)

SpecQuality == InitQuality /\ [][NextQuality]_vars

\* --------------------------------------------------------- path formatter
\* strings are sequences of atoms; a decimal digit is one atom
DecimalDigits == <<"0", "1", "2", "3", "4", "5", "6", "7", "8", "9">>

RECURSIVE NumberToString(_)
\* a non-negative integer inside a template literal: its decimal digits
NumberToString(n) ==
    IF n < 10 THEN <<DecimalDigits[n + 1]>>
    ELSE Append(NumberToString(n \div 10), DecimalDigits[(n % 10) + 1])

DigitValue(c) == (CHOOSE k \in 1 .. 10 : DecimalDigits[k] = c) - 1

RECURSIVE StringToNumber(_)
\* the number a string of decimal digits converts to
StringToNumber(s) ==
    IF Len(s) = 0 THEN 0
    ELSE 10 * StringToNumber(SubSeq(s, 1, Len(s) - 1)) + DigitValue(s[Len(s)])

\* for (const i in this.videoAttachments): the index is the key, a string
ForInKey(i) == [isString |-> TRUE, text |-> NumberToString(i), number |-> 0]

\* this.videoAttachments.map((a, i) => ...): the index is a number
MapIndex(i) == [isString |-> FALSE, text |-> <<>>, number |-> i]

\* +attachmentIndex
UnaryPlus(v) == IF v.isString THEN StringToNumber(v.text) ELSE v.number

\* the unary plus left out: string + 1 concatenates
PlusOneConcatenated(attachmentIndex) ==
    IF attachmentIndex.isString THEN Append(attachmentIndex.text, "1")
    ELSE NumberToString(attachmentIndex.number + 1)

\* ${+attachmentIndex + 1}
PlusOne(attachmentIndex) == NumberToString(UnaryPlus(attachmentIndex) + 1)

\* Video.multiPartSuffix
multiPartSuffix(attachmentIndex) ==
    IF nParts # 1 THEN <<" - Part ">> \o PlusOne(attachmentIndex) ELSE <<>>

\* `${this.filePath}${this.multiPartSuffix(i)}.${extension}`
PartPath(attachmentIndex, extension) ==
    <<"filePath">> \o multiPartSuffix(attachmentIndex) \o <<".", extension>>

\* the index the loop of a caller hands to multiPartSuffix
AttachmentIndex(c, i) ==
    IF c = "muxffmpegMetadata" THEN MapIndex(i) ELSE ForInKey(i)

\* a video with 1..MaxAttachments attachments before any path is computed
InitPath ==
    /\ nParts \in 1 .. MaxAttachments
    /\ considerAll = FALSE
    /\ artworkOn = FALSE
    /\ saveNfo = FALSE
    /\ expectedSize = {}
    /\ partial = [i \in Parts |-> Absent]
    /\ mp4 = [i \in Parts |-> Absent]
    /\ folder = FALSE
    /\ nfo = FALSE
    /\ artwork = FALSE
    /\ pc = "idle"
    /\ idx = 0
    /\ op = "none"
    /\ result = "none"
    /\ transfer = [i \in Parts |-> "none"]
    /\ listener = [i \in Parts |-> FALSE]
    /\ total = [i \in Parts |-> 0]
    /\ received = [i \in Parts |-> 0]
    /\ ffmpeg = [i \in Parts |-> "none"]
    /\ markCalls = 0
    /\ quality = <<>>
    /\ cdnEdges = "none"
    /\ qualityLevels = <<>>
    /\ downloadQuality = <<>>
    /\ allowRangeQuery = TRUE
    /\ writeStreamOptions = {}
    /\ requestOptions = {}
    /\ unsetAtCall = FALSE
    /\ paths = [c \in Callers |-> <<>>]
    /\ template = <<>>
    /\ channelTitle = <<>>
    /\ title = <<>>
    /\ formatted = {}

\* one iteration of the loop of caller c: the .partial path of the next part
ComputePath(c) ==
    /\ Len(paths[c]) < nParts
    /\ paths' = [paths EXCEPT ![c] =
                    Append(@, PartPath(AttachmentIndex(c, Len(@)), "partial"))]
    /\ UNCHANGED <<settingsVars, stateVars, formatVars>>

NextPath == \E c \in Callers : ComputePath(c)

SpecPath == InitPath /\ [][NextPath]_vars

\* ------------------------------------------------- formatString over atoms
\* an atom is a single character, a whole %...% token, or text that holds
\* no "%" and no "$": over such atoms a placeholder can only match a whole atom
TemplateAtoms == {"%channelTitle%", "%year%", "%videoTitle%", "%unknown%", "a"}
ChannelAtoms == {"a", "%year%", "$&"}
TitleAtoms == {" ", "-", "/", "\\", "a", "%year%"}

SeqsUpTo(S, n) == UNION {[1 .. k -> S] : k \in 0 .. n}

RECURSIVE Expand(_, _)
\* the replacement string of String.replace: $& stands for the matched text
Expand(replacement, match) ==
    IF Len(replacement) = 0 THEN <<>>
    ELSE (IF replacement[1] = "$&" THEN match ELSE <<replacement[1]>>)
            \o Expand(Tail(replacement), match)

RECURSIVE ReplaceAll(_, _, _)
\* string.replace(new RegExp(pattern, 'g'), replacement): the matches are
\* taken left to right without overlap, the result is not scanned again
ReplaceAll(string, pattern, replacement) ==
    IF Len(string) < Len(pattern) THEN string
    ELSE IF SubSeq(string, 1, Len(pattern)) = pattern
    THEN Expand(replacement, pattern)
            \o ReplaceAll(SubSeq(string, Len(pattern) + 1, Len(string)),
                          pattern, replacement)
    ELSE <<string[1]>> \o ReplaceAll(Tail(string), pattern, replacement)

\* this.title.replace(/ - /g, ' ').replace(/\//g, ' ').replace(/\\/g, ' ')
videoTitle ==
    ReplaceAll(ReplaceAll(ReplaceAll(title, <<" ", "-", " ">>, <<" ">>),
                          <<"/">>, <<" ">>),
               <<"\\">>, <<" ">>)

\* formatLookup in the order of Object.entries, for one release date
formatLookup ==
    << <<"%channelTitle%", channelTitle>>,
       <<"%year%", <<"2021">>>>,
       <<"%month%", <<"07">>>>,
       <<"%day%", <<"09">>>>,
       <<"%hour%", <<"08">>>>,
       <<"%minute%", <<"05">>>>,
       <<"%second%", <<"03">>>>,
       <<"%videoTitle%", videoTitle>> >>

RECURSIVE FormatFrom(_, _)
\* the loop of formatString from entry k on
FormatFrom(string, k) ==
    IF k > Len(formatLookup) THEN string
    ELSE FormatFrom(ReplaceAll(string, <<formatLookup[k][1]>>, formatLookup[k][2]),
                    k + 1)

\* Video.formatString
formatString(string) == FormatFrom(string, 1)

\* a video with its titles and a format string, before formatString runs
InitFormat ==
    /\ nParts = 1
    /\ considerAll = FALSE
    /\ artworkOn = FALSE
    /\ saveNfo = FALSE
    /\ expectedSize = {}
    /\ partial = [i \in Parts |-> Absent]
    /\ mp4 = [i \in Parts |-> Absent]
    /\ folder = FALSE
    /\ nfo = FALSE
    /\ artwork = FALSE
    /\ pc = "idle"
    /\ idx = 0
    /\ op = "none"
    /\ result = "none"
    /\ transfer = [i \in Parts |-> "none"]
    /\ listener = [i \in Parts |-> FALSE]
    /\ total = [i \in Parts |-> 0]
    /\ received = [i \in Parts |-> 0]
    /\ ffmpeg = [i \in Parts |-> "none"]
    /\ markCalls = 0
    /\ quality = <<>>
    /\ cdnEdges = "none"
    /\ qualityLevels = <<>>
    /\ downloadQuality = <<>>
    /\ allowRangeQuery = TRUE
    /\ writeStreamOptions = {}
    /\ requestOptions = {}
    /\ unsetAtCall = FALSE
    /\ paths = [c \in Callers |-> <<>>]
    /\ template \in SeqsUpTo(TemplateAtoms, MaxAtoms)
    /\ channelTitle \in SeqsUpTo(ChannelAtoms, MaxAtoms)
    /\ title \in SeqsUpTo(TitleAtoms, MaxTitle)
    /\ formatted = {}

\* this.formatString(template) returns
FormatString ==
    /\ formatted = {}
    /\ formatted' = {formatString(template)}
    /\ UNCHANGED <<settingsVars, stateVars, paths, template, channelTitle, title>>

NextFormat == FormatString

SpecFormat == InitFormat /\ [][NextFormat]_vars

\* ================================================================ claims
AllMp4Exist == \A i \in Parts : mp4[i] # Absent
AllPartialAbsent == \A i \in Parts : partial[i] = Absent

\* a step of the idle worker that calls the operation o
Calls(o) == pc = "idle" /\ Quiescent /\ op' = o

\* C1: with considerAllNonPartialDownloaded set, isMuxed() is true exactly
\* when the .mp4 file of every part exists.
C1_IsMuxedIffAllMp4Exist == considerAll => (isMuxed <=> AllMp4Exist)

\* C2: download() called while isDownloaded() is true fails with
\* AlreadyDownloaded and changes nothing: no folder, artwork or .nfo, no
\* ticket request (the loop is not entered), no transfer, no .partial file
\* created or truncated, expectedSize as it was.
C2_AlreadyDownloadedNoSideEffects ==
    [][(Calls("download") /\ isDownloaded)
         => /\ result' = "AlreadyDownloaded"
            /\ pc' = "idle"
            /\ UNCHANGED <<fileVars, expectedSize, transferVars, cdnEdges,
                           ffmpeg, markCalls>>]_vars

C2_Witness ==
    /\ op = "download"
    /\ result = "AlreadyDownloaded"
    /\ ~ considerAll
    /\ ~ isMuxed
    /\ \A i \in Parts : partial[i] > 0

\* C3: muxffmpegMetadata() called while isDownloaded() is false fails with
\* NotDownloaded before any transcoder is launched.
C3_NotDownloadedBeforeTranscoding ==
    [][(Calls("mux") /\ ~ isDownloaded)
         => /\ result' = "NotDownloaded"
            /\ \A i \in Parts : ffmpeg'[i] # "running"]_vars

\* C4: a transfer-progress event handled while expectedSize is already set
\* does not overwrite it.
C4_ProgressNeverOverwrites ==
    [][\A i \in Parts :
         (transfer[i] = "open" /\ transfer'[i] = "flowing" /\ expectedSize # {})
           => expectedSize' = expectedSize]_vars

\* C5: once the transcoder of one part has exited non-zero, the run of
\* muxffmpegMetadata() can only fail (TranscodeFailed): expectedSize is not
\* recomputed, channel.markVideoCompleted is not called and no .partial file
\* is deleted, whatever the other transcoders do.
C5_OneFailureFailsTheRun ==
    [][(pc = "transcode" /\ \E i \in Parts : ffmpeg[i] = "failed")
         => /\ pc' \in {"transcode", "idle"}
            /\ pc' = "idle" => result' = "TranscodeFailed"
            /\ UNCHANGED <<expectedSize, markCalls, partial>>]_vars

C5_Witness ==
    /\ op = "mux"
    /\ result = "TranscodeFailed"
    /\ nParts = 2
    /\ partial[0] > 0 /\ partial[1] > 0
    /\ mp4[0] > 0 /\ mp4[1] = Absent
    /\ markCalls = 0

\* C6: in a run of muxffmpegMetadata() expectedSize is set to the summed
\* .mp4 bytes only after every transcoder exited 0, channel.markVideoCompleted
\* is called after that on a muxed video, a .partial file is deleted only
\* after that call returned, and a run that ends well leaves no .partial
\* file, expectedSize equal to the summed .mp4 bytes and isMuxed() true.
C6_FinalizeOrder ==
    [][/\ (pc # "mark" /\ pc' = "mark")
            => /\ pc = "transcode"
               /\ \A i \in Parts : ffmpeg[i] = "ok" /\ mp4[i] # Absent
               /\ expectedSize' = {fileBytes(mp4)}
               /\ UNCHANGED <<mp4, partial, markCalls>>
       /\ (pc # "unlink" /\ pc' = "unlink")
            => /\ pc = "mark"
               /\ isMuxed
               /\ expectedSize = {fileBytes(mp4)}
               /\ markCalls' = markCalls + 1
               /\ UNCHANGED <<mp4, partial, expectedSize>>
       /\ (\E i \in Parts : partial[i] # Absent /\ partial'[i] = Absent)
            => pc = "unlink"
       /\ (pc = "unlink" /\ pc' = "idle" /\ result' = "ok")
            => /\ \A i \in Parts : partial'[i] = Absent
               /\ expectedSize' = {fileBytes(mp4')}
               /\ isMuxed'
               /\ UNCHANGED <<mp4, expectedSize, markCalls>>]_vars

C6_Witness ==
    /\ op = "mux"
    /\ result = "ok"
    /\ nParts = 2
    /\ AllPartialAbsent
    /\ mp4[0] # mp4[1]
    /\ markCalls = 1

\* C7: markCompleted() called while isMuxed() is false fails with
\* MuxValidationFailed, does not call channel.markVideoCompleted and leaves
\* expectedSize and the files as they were.
C7_MarkCompletedNeedsMuxed ==
    [][((Calls("markCompleted") \/ pc = "mark") /\ ~ isMuxed)
         => /\ result' = "MuxValidationFailed"
            /\ pc' = "idle"
            /\ UNCHANGED <<markCalls, expectedSize, fileVars>>]_vars

C7_Witness ==
    /\ op = "markCompleted"
    /\ result = "MuxValidationFailed"
    /\ AllMp4Exist
    /\ expectedSize # {}
    /\ markCalls = 0

\* C8: muxffmpegMetadata() run while every .partial file is absent (as after
\* a successful run) ends with an error, never reaches the recomputation of
\* expectedSize, the completion call or the unlink loop, and leaves the
\* .mp4 files, expectedSize and the completion count as they were.
C8_SecondFinalizeFailsClean ==
    [][((Calls("mux") \/ pc = "transcode" \/ \E i \in Parts : ffmpeg[i] = "running")
          /\ AllPartialAbsent)
         => /\ pc' \in {"transcode", "idle"}
            /\ (pc = "transcode" /\ pc' = "idle") => result' = "TranscodeFailed"
            /\ UNCHANGED <<mp4, partial, expectedSize, markCalls>>]_vars

C8_Witness ==
    /\ op = "mux"
    /\ result = "TranscodeFailed"
    /\ AllPartialAbsent
    /\ AllMp4Exist
    /\ expectedSize = {fileBytes(mp4)}
    /\ markCalls = 1
    /\ Quiescent

\* C9: download() on a ticket without candidate edges (edges absent or an
\* empty list) fails with NoEdgesAvailable and opens no transfer for that
\* attachment.
C9_NoEdgesAvailable ==
    [][(pc = "dl" /\ cdnEdges' \in {"undefined", "empty"})
         => /\ result' = "NoEdgesAvailable"
            /\ pc' = "idle"
            /\ UNCHANGED <<transfer, partial>>]_vars

\* C10: for a non-empty list of numeric labels the quality used is the
\* requested label when the list holds it, else a label of the list that no
\* label of the list exceeds numerically, in whatever order they are listed.
C10_QualitySelected ==
    downloadQuality # <<>>
        => IF Includes(qualityLevels, quality)
           THEN downloadQuality = quality
           ELSE /\ Includes(qualityLevels, downloadQuality)
                /\ \A k \in 1 .. Len(qualityLevels) :
                       ToNumber(qualityLevels[k]) <= ToNumber(downloadQuality)

C10_Witness ==
    /\ Len(qualityLevels) = 3
    /\ ~ Includes(qualityLevels, quality)
    /\ ToNumber(qualityLevels[1]) < ToNumber(qualityLevels[2])
    /\ ToNumber(qualityLevels[2]) > ToNumber(qualityLevels[3])
    /\ downloadQuality = qualityLevels[2]

\* the handles the last download() gave its caller: downloadRequests is
\* returned only when the loop has run for every attachment
handles == IF op = "download" /\ result = "ok" THEN Parts ELSE {}

\* C11: fileBytes keeps a missing file apart from an existing one: no set of
\* files with a part missing gives the fileBytes of a set in which every part
\* exists, and a missing part takes nothing off the bytes of the parts that
\* exist.
C11_AbsentDistinguishable ==
    \A files \in {partial, mp4} :
        (\E i \in Parts : files[i] = Absent)
            => /\ \A all \in [Parts -> Sizes] : fileBytes(files) # fileBytes(all)
               /\ (\E i \in Parts : files[i] # Absent)
                    => fileBytes(files) >=
                         fileBytes([i \in Parts |-> IF files[i] = Absent THEN 0
                                                   ELSE files[i]])

\* C12: while expectedSize is unset and no .mp4 file exists, isDownloaded()
\* is false.
C12_NotDownloadedWithoutSizeAndMp4 ==
    (expectedSize = {} /\ \A i \in Parts : mp4[i] = Absent) => ~ isDownloaded

\* C17: channel.markVideoCompleted is called only while the .mp4 file of
\* every part exists.
C17_CompletedOnlyWithAllMp4 ==
    [][markCalls' # markCalls => AllMp4Exist]_vars

\* C18: a download() that fails in its loop has started no transfer: every
\* transfer it started is in the collection the caller receives.
C18_NoTransferWithoutHandle ==
    (op = "download" /\ result \in {"NoEdgesAvailable", "TypeError"})
        => \A i \in Parts : transfer[i] # "none" => i \in handles

\* C13: a download() that retries restarts every part from byte 0: whatever
\* the .partial files hold, whatever expectedSize and allowRangeQuery are,
\* the request of each part carries no byte range and its .partial file is
\* written from offset 0 in place of its previous contents, so a part whose
\* transfer completed holds exactly the bytes of that transfer.
C13_RetryRestartsFromZero ==
    [][/\ (pc = "dl" /\ transfer'[idx] = "open")
            => /\ requestOptions = {}
               /\ writeStreamOptions = {}
               /\ partial'[idx] = 0
       /\ \A i \in Parts :
            transfer'[i] = "done"
                => partial'[i] = received'[i] /\ received'[i] = total'[i]]_vars

\* a retry with expectedSize known and range queries allowed: part 1 has
\* been transferred anew while the old .partial file of part 2 is still there
C13_Witness ==
    /\ op = "download"
    /\ pc = "dl"
    /\ idx = 1
    /\ allowRangeQuery
    /\ ~ unsetAtCall
    /\ transfer[0] = "done"
    /\ partial[0] = total[0]
    /\ partial[1] > 0

\* C16: when a download() that was called with expectedSize unset has
\* returned, every transfer has completed and every .partial file holds the
\* total its transfer announced, isDownloaded() is true.
C16_DownloadedOnceTransfersComplete ==
    (/\ op = "download"
     /\ result = "ok"
     /\ unsetAtCall
     /\ \A i \in Parts : transfer[i] = "done" /\ partial[i] = total[i])
        => isDownloaded

\* C14: the suffix of a part is empty exactly when the video has one video
\* attachment; otherwise the suffix of the part at 0-based index i is
\* " - Part " followed by the decimal number i + 1; the paths of the parts
\* are pairwise distinct, and fileBytes, download and muxffmpegMetadata
\* compute the same path for the same part.
C14_PartPaths ==
    \A c \in Callers : \A k \in 1 .. Len(paths[c]) :
        LET path == paths[c][k]
            suffix == SubSeq(path, 2, Len(path) - 2)
            digits == Tail(suffix)
        IN  /\ path[1] = "filePath"
            /\ SubSeq(path, Len(path) - 1, Len(path)) = <<".", "partial">>
            /\ (suffix = <<>>) <=> (nParts = 1)
            /\ suffix # <<>>
                 => /\ suffix[1] = " - Part "
                    /\ Len(digits) > 0
                    /\ \A d \in 1 .. Len(digits) :
                         \E v \in 1 .. 10 : DecimalDigits[v] = digits[d]
                    /\ digits[1] # "0"
                    /\ StringToNumber(digits) = (k - 1) + 1
            /\ \A j \in 1 .. Len(paths[c]) : j # k => paths[c][j] # path
            /\ \A d \in Callers : Len(paths[d]) >= k => paths[d][k] = path

\* every caller has computed the paths of a video of ten or more parts
C14_Witness ==
    /\ nParts >= 10
    /\ \A c \in Callers : Len(paths[c]) = nParts

\* the value formatLookup holds for an atom, the atom itself if it is no key
Substitute(atom) ==
    IF \E k \in 1 .. Len(formatLookup) : formatLookup[k][1] = atom
    THEN formatLookup[CHOOSE k \in 1 .. Len(formatLookup) :
                          formatLookup[k][1] = atom][2]
    ELSE <<atom>>

RECURSIVE SubstituteEach(_)
SubstituteEach(string) ==
    IF Len(string) = 0 THEN <<>>
    ELSE Substitute(string[1]) \o SubstituteEach(Tail(string))

\* C15: formatString replaces every occurrence of every recognized
\* placeholder by its value, leaves unknown %...% tokens and all other text
\* as they are, and a value that itself looks like a placeholder is put in
\* as it is.
C15_FormatSubstitutesOnce ==
    \A f \in formatted : f = SubstituteEach(template)

Contains(string, pattern) ==
    \E k \in 1 .. Len(string) :
        /\ k + Len(pattern) - 1 <= Len(string)
        /\ SubSeq(string, k, k + Len(pattern) - 1) = pattern

\* C19: whatever the title, the value put in for %videoTitle% holds no "/",
\* no "\" and no " - ".
C19_VideoTitleClean ==
    \A f \in formatted :
        template = <<"%videoTitle%">>
            => /\ ~ Contains(f, <<"/">>)
               /\ ~ Contains(f, <<"\\">>)
               /\ ~ Contains(f, <<" ", "-", " ">>)
====
